---- MODULE Spec2Model ----
(***************************************************************************)
(* State-machine model of the yep archive engine (src/src/libyep.c): the   *)
(* pack list builder, the archive writer, the reader with its single       *)
(* process-wide cached handle, and the zlib codec adapter.                 *)
(*                                                                         *)
(* Files are sequences of bytes (0..255); paths and names are sequences of *)
(* character codes.  Multi-byte integers are little-endian, as fwrite of a *)
(* native integer lays them out on the platforms the engine targets.       *)
(***************************************************************************)
EXTENDS Integers, Sequences, FiniteSets, TLC

(***************************************************************************)
(* Bounds of the model (not program constants).                            *)
(***************************************************************************)
\* how many FILE handles the reader may lose without fclose before the
\* model stops opening further ones
MaxLeaked == 1
\* how many nodes failed packs may leave behind in the pack list
MaxPackList == 1
\* latest modification time an archive has before the run (SpecStale)
MaxTime == 2

(***************************************************************************)
(* Program constants.  libyep.h is not among the sources; the values below *)
(* are the ones the format description gives (78-byte records, 0 = none,   *)
(* 1 = zlib, 0 = misc).                                                    *)
(***************************************************************************)
YEP_CURRENT_FORMAT_VERSION == 1
YEP_HEADER_SIZE_BYTES == 78
YEP_COMPRESSION_NONE == 0
YEP_COMPRESSION_ZLIB == 1
YEP_DATATYPE_MISC == 0
\* libyep.c:603  data_size > 256
CompressionThreshold == 256
\* libyep.c:468  strlen(final_relative_path) + 1 > 64, char name[64]
NameFieldSize == 64
\* libyep.c:453  char normalized_relative_path[256]
RelPathBufSize == 256

SLASH == 47
BACKSLASH == 92

\* the null pointer, among values that are sequences of bytes or characters
NULL == << -1 >>

(***************************************************************************)
(* Byte-level helpers.                                                     *)
(***************************************************************************)
Rep(b, n) == [i \in 1..n |-> b]

Max(a, b) == IF a >= b THEN a ELSE b
Min(a, b) == IF a <= b THEN a ELSE b

\* fwrite(&v, sizeof(uint16_t), 1, f) of a little-endian uint16_t
U16LE(v) == << v % 256, (v \div 256) % 256 >>

\* fwrite(&v, sizeof(uint32_t), 1, f) of a little-endian uint32_t
U32LE(v) == << v % 256, (v \div 256) % 256, (v \div 65536) % 256,
               (v \div 16777216) % 256 >>

\* the integer a little-endian byte buffer holds
RECURSIVE FromLE(_)
FromLE(bs) == IF bs = << >> THEN 0 ELSE bs[1] + 256 * FromLE(Tail(bs))

\* fseek(f, off, SEEK_SET); fwrite(data, 1, Len(data), f): bytes between the
\* old end of file and off read as zero
WriteAt(f, off, data) ==
    IF data = << >> THEN f
    ELSE IF off >= Len(f) THEN f \o Rep(0, off - Len(f)) \o data
    ELSE IF off + Len(data) >= Len(f) THEN SubSeq(f, 1, off) \o data
    ELSE SubSeq(f, 1, off) \o data \o SubSeq(f, off + Len(data) + 1, Len(f))

\* fseek(f, off, SEEK_SET); fread(buf, 1, n, f) into a buffer that held old:
\* a short read leaves the rest of the buffer as it was
ReadAt(f, off, n, old) ==
    IF off + n <= Len(f) THEN SubSeq(f, off + 1, off + n)
    ELSE [i \in 1..n |-> IF off + i <= Len(f) THEN f[off + i] ELSE old[i]]

\* strcmp(handle, buf) == 0 for a string handle and a char buffer buf: the
\* buffer holds the characters of handle and then a NUL
StrEqual(handle, buf) ==
    /\ Len(handle) < Len(buf)
    /\ SubSeq(buf, 1, Len(handle)) = handle
    /\ buf[Len(handle) + 1] = 0

\* the C string a char buffer holds: the bytes before the first NUL
CStr(buf) ==
    IF \A i \in 1..Len(buf) : buf[i] # 0 THEN buf
    ELSE SubSeq(buf, 1, (CHOOSE i \in 1..Len(buf) :
                            buf[i] = 0 /\ \A j \in 1..(i - 1) : buf[j] # 0) - 1)

(***************************************************************************)
(* Codec adapter.  zlib is an external library; the model stands in for    *)
(* deflate/inflate with a concrete lossless coder of the same shape: a     *)
(* stream is a magic byte, a block kind (1 = run-length coded, 0 = stored  *)
(* when coding would not shrink the input, as deflate falls back to stored *)
(* blocks), the coded length (the role of the stream's end marker and      *)
(* checksum) and the body.                                                 *)
(***************************************************************************)
ZMagic == 120

\* length of the run of equal bytes d starts with, at most 255
RunLen(d) ==
    LET stops == {i \in 1..Min(Len(d), 255) : d[i] # d[1]}
    IN  IF stops = {} THEN Min(Len(d), 255)
        ELSE (CHOOSE i \in stops : \A j \in stops : i <= j) - 1

RECURSIVE RLE(_)
RLE(d) ==
    IF d = << >> THEN << >>
    ELSE LET n == RunLen(d)
         IN  << n, d[1] >> \o RLE(SubSeq(d, n + 1, Len(d)))

RECURSIVE UnRLE(_)
UnRLE(z) ==
    IF Len(z) < 2 THEN << >>
    ELSE Rep(z[2], z[1]) \o UnRLE(SubSeq(z, 3, Len(z)))

\* deflate(&stream, Z_FINISH) on the whole input
Deflate(d) ==
    LET r == RLE(d)
    IN  IF Len(r) < Len(d)
        THEN << ZMagic, 1 >> \o U32LE(Len(d)) \o r
        ELSE << ZMagic, 0 >> \o U32LE(Len(d)) \o d

\* inflate(&stream, Z_FINISH) on the whole input: the decoded bytes, or
\* ok = FALSE for a stream that is not well formed or ends early
Inflate(z) ==
    IF Len(z) < 6 \/ z[1] # ZMagic \/ z[2] \notin {0, 1}
    THEN [ok |-> FALSE, out |-> << >>]
    ELSE LET n    == FromLE(SubSeq(z, 3, 6))
             body == SubSeq(z, 7, Len(z))
             out  == IF z[2] = 0 THEN body ELSE UnRLE(body)
         IN  IF (z[2] = 1 /\ Len(body) % 2 # 0) \/ Len(out) # n
             THEN [ok |-> FALSE, out |-> << >>]
             ELSE [ok |-> TRUE, out |-> out]

\* What zlib and the C runtime do in one packing run.  fail: deflateInit
\* reports Z_MEM_ERROR.  compress_data then returns -1 without assigning
\* *output or *output_size, and its caller goes on to use both: that use of
\* uninitialized values either ends the process (crash) or proceeds with
\* whatever size and bytes the two variables happen to hold.
GarbageSizes == {0, 2}

ZlibOk == [fail |-> FALSE, crash |-> FALSE, size |-> 0, byte |-> 0]

ZlibEnv ==
    {ZlibOk}
    \cup {[fail |-> TRUE, crash |-> TRUE, size |-> 0, byte |-> 0]}
    \cup {[fail |-> TRUE, crash |-> FALSE, size |-> n, byte |-> b] :
             n \in GarbageSizes, b \in {0, 255}}

\* compress_data: rc 0 and the deflated bytes; rc -1 when deflateInit fails
\* (output and output_size are then what the caller's variables held) or
\* when deflate does not reach Z_STREAM_END inside the output buffer
compress_data(input, z) ==
    LET output_size == Len(input) + (Len(input) \div 10) + 12
        d           == Deflate(input)
    IN  IF z.fail
        THEN [rc |-> -1, output |-> Rep(z.byte, z.size),
              output_size |-> z.size]
        ELSE IF Len(d) > output_size
        THEN [rc |-> -1, output |-> << >>, output_size |-> output_size]
        ELSE [rc |-> 0, output |-> d, output_size |-> Len(d)]

\* a decompressor that accepts a stream that ends before the buffer is full
DecompressNoSizeCheck(input, output_size) ==
    LET r == Inflate(input)
    IN  IF ~r.ok \/ Len(r.out) > output_size
        THEN [rc |-> -1, output |-> << >>]
        ELSE [rc |-> 0, output |-> r.out]

\* decompress_data: rc 0 and exactly output_size bytes, or rc -1 when
\* inflate does not reach Z_STREAM_END inside an output buffer of
\* output_size bytes, or reaches it having produced fewer bytes
decompress_data(input, output_size) ==
    LET r == Inflate(input)
    IN  IF ~r.ok \/ Len(r.out) > output_size
        THEN [rc |-> -1, output |-> << >>]
        ELSE IF output_size # Len(r.out)
        THEN [rc |-> -1, output |-> << >>]
        ELSE [rc |-> 0, output |-> r.out]

(***************************************************************************)
(* The file system the engine runs against.  Source trees are fixed; the   *)
(* archives are the part of the disk the engine writes.                    *)
(***************************************************************************)
\* directory roots "d0" .. "d3"
Dir0 == << 100, 48 >>
Dir1 == << 100, 49 >>
Dir2 == << 100, 50 >>
Dir3 == << 100, 51 >>
SourceDirs == {Dir0, Dir1, Dir2, Dir3}
\* "dx": no such directory
DirMissing == << 100, 120 >>

\* file names; Name61 and Name62 make relative names of 63 and 64
\* characters under the directory "s"
NameA == << 97 >>
NameK == << 107 >>
NameS == << 115 >>
NameU == << 117 >>
Name61 == Rep(120, NameFieldSize - 3)
Name62 == Rep(121, NameFieldSize - 2)
NameS61 == NameS \o << SLASH >> \o Name61
NameS62 == NameS \o << SLASH >> \o Name62
NameZZ == << 122, 122 >>

Join(dir, fname) == dir \o << SLASH >> \o fname

\* what SDL_EnumerateDirectory yields for each directory, in order
Listing ==
    (Dir0 :> << >>) @@
    (Dir1 :> << NameA, NameS >>) @@
    (Join(Dir1, NameS) :> << Name62, Name61 >>) @@
    (Dir2 :> << NameA >>) @@
    (Dir3 :> << NameU, NameK >>)

\* the regular files: content, and whether fopen(path, "rb") succeeds
Files ==
    (Join(Dir1, NameA) :>
        [data |-> Rep(66, CompressionThreshold), readable |-> TRUE]) @@
    (Join(Dir1, NameS61) :>
        [data |-> Rep(170, CompressionThreshold - 56) \o Rep(85, 57),
         readable |-> TRUE]) @@
    (Join(Dir1, NameS62) :> [data |-> << 1 >>, readable |-> TRUE]) @@
    (Join(Dir2, NameA) :> [data |-> << 7, 0, 7 >>, readable |-> TRUE]) @@
    (Join(Dir3, NameU) :> [data |-> << 9 >>, readable |-> FALSE]) @@
    (Join(Dir3, NameK) :> [data |-> << 5, 6 >>, readable |-> TRUE])

\* modification times of the source tree; regular source files are older
\* than every directory
DirModifyTime ==
    (Dir0 :> 0) @@ (Dir1 :> 1) @@ (Join(Dir1, NameS) :> 1) @@
    (Dir2 :> 2) @@ (Dir3 :> 1)

\* the time stamp a file written during the run gets: the source tree is
\* not modified while the process runs, so it is later than all of them
PackTime == 3

\* yep_get_path_info: the path's type, or "none" when SDL_GetPathInfo fails
yep_get_path_info(path) ==
    IF path \in DOMAIN Files THEN "file"
    ELSE IF path \in DOMAIN Listing THEN "directory"
    ELSE "none"

(***************************************************************************)
(* Pack list builder.  The pack list is the global yep_pack_list: head is  *)
(* the linked list read from its head, entry_count the counter beside it.  *)
(***************************************************************************)
normalize_path_separators(path) ==
    [i \in 1..Len(path) |-> IF path[i] = BACKSLASH THEN SLASH ELSE path[i]]

IsSeparator(c) == c = SLASH \/ c = BACKSLASH

\* the dirname SDL_EnumerateDirectory hands to the callback: the directory
\* path, ending with a separator
EnumDirName(dir_path) ==
    IF dir_path # << >> /\ IsSeparator(dir_path[Len(dir_path)])
    THEN dir_path
    ELSE dir_path \o << SLASH >>

RECURSIVE SkipLeadingSeparators(_)
SkipLeadingSeparators(p) ==
    IF p # << >> /\ IsSeparator(p[1]) THEN SkipLeadingSeparators(Tail(p))
    ELSE p

\* the archive-relative name of full_path under the root being packed:
\* ok = FALSE when full_path does not start with the normalized root
RelativeName(full_path, root_path) ==
    LET normalized_root == normalize_path_separators(root_path)
        root_len        == Len(normalized_root)
    IN  IF Len(full_path) < root_len
           \/ SubSeq(full_path, 1, root_len) # normalized_root
        THEN [ok |-> FALSE, name |-> << >>]
        ELSE LET rel0 == SubSeq(full_path, root_len + 1, Len(full_path))
                 rel1 == IF rel0 # << >> /\ IsSeparator(rel0[1])
                         THEN Tail(rel0) ELSE rel0
                 copy == SubSeq(rel1, 1, Min(Len(rel1), RelPathBufSize - 1))
             IN  [ok   |-> TRUE,
                  name |-> SkipLeadingSeparators(
                               normalize_path_separators(copy))]

Zeros == Rep(0, NameFieldSize)

\* the 64-byte name field of a node: memset to zero, then the name
NameField(name) == name \o SubSeq(Zeros, 1, NameFieldSize - Len(name))

\* a list that links each new node after the last one instead of at the head
PushNodeTail(pl, node) ==
    [head |-> pl.head \o << node >>, entry_count |-> pl.entry_count + 1]

\* node->next = yep_pack_list.head; yep_pack_list.head = node; entry_count++
PushNode(pl, node) ==
    [head |-> << node >> \o pl.head, entry_count |-> pl.entry_count + 1]

RECURSIVE _recurse_dir_callback(_, _, _, _)
RECURSIVE EnumerateDirectory(_, _, _, _)

\* _yep_walk_directory_v2 with yep_pack_root_path = root_path
_yep_walk_directory_v2(pl, root_path, dir_path) ==
    IF yep_get_path_info(dir_path) # "directory" THEN pl
    ELSE EnumerateDirectory(pl, root_path, EnumDirName(dir_path),
                            Listing[dir_path])

\* SDL_EnumerateDirectory: the callback on every entry, in listing order
\* (the callback always answers SDL_ENUM_CONTINUE)
EnumerateDirectory(pl, root_path, dirname, fnames) ==
    IF fnames = << >> THEN pl
    ELSE EnumerateDirectory(
             _recurse_dir_callback(pl, root_path, dirname, Head(fnames)),
             root_path, dirname, Tail(fnames))

_recurse_dir_callback(pl, root_path, dirname, fname) ==
    LET full_path == normalize_path_separators(dirname \o fname)
        type      == yep_get_path_info(full_path)
    IN  IF type = "none" THEN pl
        ELSE IF type = "file"
        THEN LET rel == RelativeName(full_path, root_path)
             IN  IF ~rel.ok THEN pl
                 ELSE IF Len(rel.name) + 1 > NameFieldSize THEN pl
                 ELSE PushNode(pl, [name     |-> NameField(rel.name),
                                    fullpath |-> full_path])
        ELSE IF type = "directory"
        THEN _yep_walk_directory_v2(pl, root_path, full_path)
        ELSE pl

(***************************************************************************)
(* Archive writer.                                                         *)
(***************************************************************************)
\* fopen(itr->fullpath, "rb") succeeds
CanOpenSource(fullpath) ==
    fullpath \in DOMAIN Files /\ Files[fullpath].readable

\* get_file_size: ftell into a uint32_t (sizes, offsets and the data cursor
\* are uint32_t in the code; every file of the model is far below 2^32
\* bytes, so none of them wraps)
get_file_size(fullpath) == Len(Files[fullpath].data)

\* a threshold test that already compresses a file of exactly 256 bytes
CompressionAtLeast(data_size) ==
    IF data_size >= CompressionThreshold THEN YEP_COMPRESSION_ZLIB
    ELSE YEP_COMPRESSION_NONE

\* the compression kind write_pack_file picks for data_size raw bytes
CompressionFor(data_size) ==
    IF data_size > CompressionThreshold THEN YEP_COMPRESSION_ZLIB
    ELSE YEP_COMPRESSION_NONE

\* a data region that forgets the three bytes of the file header
DataStartNoFileHeader(entry_count) ==
    entry_count * YEP_HEADER_SIZE_BYTES

\* uint32_t data_start = 3 + (yep_pack_list.entry_count * YEP_HEADER_SIZE_BYTES)
DataStart(entry_count) ==
    3 + entry_count * YEP_HEADER_SIZE_BYTES

\* data_end += data_size
AdvanceDataEnd(data_end, data_size) == data_end + data_size

write_data_to_pack(pack_file, offset, data) == WriteAt(pack_file, offset, data)

update_header(pack_file, entry_index, offset, size, compression_type, uncompressed_size, data_type) ==
    LET header_start  == 3
        header_offset == header_start + (entry_index * YEP_HEADER_SIZE_BYTES)
                         + NameFieldSize
    IN  WriteAt(pack_file, header_offset,
                U32LE(offset) \o U32LE(size) \o << compression_type >>
                \o U32LE(uncompressed_size) \o << data_type >>)

\* the payload loop of write_pack_file from node itr on: the file as written;
\* exited = TRUE when a source file could not be opened (exit(1)); zfailed =
\* TRUE when compress_data returned non-zero for some entry; crashed = TRUE
\* when the use of its unassigned outputs ended the process; stopped is the
\* index of the entry at which the loop ended early, or -1
RECURSIVE WritePayloads(_, _, _, _, _)
WritePayloads(pack_file, itr, current_entry, data_end, z) ==
    IF itr = << >>
    THEN [file |-> pack_file, exited |-> FALSE, crashed |-> FALSE,
          zfailed |-> FALSE, stopped |-> -1]
    ELSE IF ~CanOpenSource(Head(itr).fullpath)
    THEN [file |-> pack_file, exited |-> TRUE, crashed |-> FALSE,
          zfailed |-> FALSE, stopped |-> current_entry]
    ELSE LET raw_size          == get_file_size(Head(itr).fullpath)
             uncompressed_size == raw_size
             raw               == SubSeq(Files[Head(itr).fullpath].data,
                                         1, raw_size)
             compression_type  == CompressionFor(raw_size)
             c                 == compress_data(raw, z)
             zfail             == compression_type = YEP_COMPRESSION_ZLIB
                                  /\ c.rc # 0
             data_size         == IF compression_type = YEP_COMPRESSION_ZLIB
                                  THEN c.output_size ELSE raw_size
             data              == IF compression_type = YEP_COMPRESSION_ZLIB
                                  THEN ReadAt(c.output, 0, data_size,
                                              Rep(0, data_size))
                                  ELSE raw
             f1 == write_data_to_pack(pack_file, data_end, data)
             f2 == update_header(f1, current_entry, data_end, data_size,
                                 compression_type, uncompressed_size,
                                 YEP_DATATYPE_MISC)
             rest == WritePayloads(f2, Tail(itr), current_entry + 1,
                                   AdvanceDataEnd(data_end, data_size), z)
         IN  IF zfail /\ z.crash
             THEN [file |-> pack_file, exited |-> FALSE, crashed |-> TRUE,
                   zfailed |-> TRUE, stopped |-> current_entry]
             ELSE [rest EXCEPT !.zfailed = @ \/ zfail]

\* a payload loop that passes over the files it cannot open
WritePackSkipUnreadable(pack_file, pl, z) ==
    WritePayloads(pack_file,
                  SelectSeq(pl.head, LAMBDA n : CanOpenSource(n.fullpath)),
                  0, DataStart(pl.entry_count), z)

\* write_pack_file on the pack list pl
write_pack_file(pack_file, pl, z) ==
    WritePayloads(pack_file, pl.head, 0, DataStart(pl.entry_count), z)

\* the zeroed records _yep_pack_directory writes, names only
RECURSIVE BlankHeaders(_)
BlankHeaders(itr) ==
    IF itr = << >> THEN << >>
    ELSE Head(itr).name
         \o U32LE(0) \o U32LE(0) \o << 0 >> \o U32LE(0) \o << 0 >>
         \o BlankHeaders(Tail(itr))

\* _yep_pack_directory once the output file is open: the bytes written
PackImage(pl, z) ==
    write_pack_file(<< YEP_CURRENT_FORMAT_VERSION >>
                    \o U16LE(pl.entry_count % 65536)
                    \o BlankHeaders(pl.head), pl, z)

EmptyPackList == [head |-> << >>, entry_count |-> 0]

(***************************************************************************)
(* Archives on disk.                                                       *)
(***************************************************************************)
\* "o1": the output the packs of the model write; absent at first
Arch1 == << 111, 49 >>
\* "o2": an archive packed from Dir2 before the process started
Arch2 == << 111, 50 >>
\* "v2": an archive another version of the format left behind
ArchOld == << 118, 50 >>
\* "no": no such file
ArchMissing == << 110, 111 >>
\* "x/o": an output path whose directory does not exist
OutBad == << 120, SLASH, 111 >>

ArchivePaths == {Arch1, Arch2, ArchOld}
ReadPaths == {Arch1, Arch2, ArchOld, ArchMissing}
OutPaths == {Arch1, OutBad}
QueryNames == {NameA, NameS61, NameZZ}

\* the content of a path that does not exist
NoFile == << -2 >>

\* the uninitialized bytes a fresh stack buffer or malloc block may hold
GarbageBytes == {0, 255}

(***************************************************************************)
(* State.                                                                  *)
(***************************************************************************)
VARIABLES
    disk,                \* archive path -> bytes, or NoFile
    modify_time,         \* archive path -> modification time of the file
    yep_file_path,       \* the cached path, or NULL
    path_freed,          \* yep_file_path points at memory already freed
    yep_file,            \* NULL, or the path this FILE is open on
    leaked,              \* FILE handles overwritten without fclose
    file_entry_count,
    file_version_number,
    yep_pack_list,       \* [head, entry_count]
    proc,                \* "running", "shutdown", "exited" (exit(1)), "crashed"
    written,             \* the last pack that opened its output: the
                         \* directory, the pack list it wrote from, how many
                         \* of its nodes were there before the walk, and
                         \* whether it ran to its end
    ret                  \* the last call and what it returned: ok is the
                         \* boolean a pack or an existence probe returned,
                         \* and whether a lookup found its header

vars == << disk, modify_time, yep_file_path, path_freed, yep_file, leaked,
           file_entry_count, file_version_number, yep_pack_list, proc,
           written, ret >>

reader == << yep_file_path, path_freed, yep_file, leaked,
             file_entry_count, file_version_number >>

(***************************************************************************)
(* Archive reader.                                                         *)
(***************************************************************************)
\* what _yep_open_file(file) may do from the current reader state.  Reading
\* or freeing a path that was already freed is undefined: the comparison
\* may answer either way, the second free may abort the process.
_yep_open_file(file) ==
    LET hits == IF yep_file_path = NULL THEN {FALSE}
                ELSE IF path_freed THEN {TRUE, FALSE}
                ELSE {yep_file_path = file}
        keep == [ok |-> TRUE, cause |-> "ok", crashed |-> FALSE,
                 path |-> yep_file_path, freed |-> path_freed,
                 file |-> yep_file, leaked |-> leaked,
                 count |-> file_entry_count, version |-> file_version_number]
        lost == IF yep_file = NULL THEN leaked ELSE leaked + 1
        opens == file \in ArchivePaths /\ disk[file] # NoFile
        bytes == disk[file]
        version == (file_version_number \div 256) * 256
                   + ReadAt(bytes, 0, 1, << file_version_number % 256 >>)[1]
        count == FromLE(ReadAt(bytes, 1, 2, U16LE(file_entry_count)))
        opened == [keep EXCEPT !.path = file, !.freed = FALSE,
                               !.file = file, !.leaked = lost,
                               !.count = count, !.version = version,
                               !.ok = (version = YEP_CURRENT_FORMAT_VERSION),
                               !.cause = IF version = YEP_CURRENT_FORMAT_VERSION
                                         THEN "ok" ELSE "version"]
    IN  UNION { IF hit THEN {keep}
                ELSE IF ~opens
                THEN {[keep EXCEPT !.ok = FALSE, !.cause = "open",
                                   !.file = NULL, !.leaked = lost]}
                ELSE IF path_freed
                THEN {opened, [opened EXCEPT !.crashed = TRUE]}
                ELSE {opened}
              : hit \in hits }

NoData == [data |-> NULL, size |-> 0]

NoHeader ==
    [name |-> << >>, offset |-> 0, size |-> 0, compression_type |-> 0,
     uncompressed_size |-> 0, data_type |-> 0]

\* the 78 bytes the name/offset/size/... buffers hold after the fread calls
\* of loop round i: a read past the end of the file leaves a buffer as the
\* round before left it, or as it was when the function was entered
HeaderBuffers(bytes, i, garbage) ==
    IF i >= 0 /\ 3 + (i + 1) * YEP_HEADER_SIZE_BYTES <= Len(bytes)
    THEN SubSeq(bytes, 3 + i * YEP_HEADER_SIZE_BYTES + 1,
                3 + (i + 1) * YEP_HEADER_SIZE_BYTES)
    ELSE
    [j \in 1..YEP_HEADER_SIZE_BYTES |->
        LET last == IF Len(bytes) - 3 - j < 0 THEN -1
                    ELSE Min(i, (Len(bytes) - 3 - j) \div YEP_HEADER_SIZE_BYTES)
        IN  IF last < 0 THEN garbage
            ELSE bytes[3 + last * YEP_HEADER_SIZE_BYTES + j]]

HeaderAt(bytes, i, garbage) ==
    LET b == HeaderBuffers(bytes, i, garbage)
    IN  [name              |-> SubSeq(b, 1, NameFieldSize),
         offset            |-> FromLE(SubSeq(b, 65, 68)),
         size              |-> FromLE(SubSeq(b, 69, 72)),
         compression_type  |-> b[73],
         uncompressed_size |-> FromLE(SubSeq(b, 74, 77)),
         data_type         |-> b[78]]

\* the loop of _yep_seek_header from round i on
RECURSIVE SeekFrom(_, _, _, _, _)
SeekFrom(bytes, entry_count, handle, garbage, i) ==
    IF i >= entry_count THEN [found |-> FALSE, index |-> -1]
    ELSE IF StrEqual(handle, SubSeq(HeaderBuffers(bytes, i, garbage),
                                    1, NameFieldSize))
    THEN [found |-> TRUE, index |-> i]
    ELSE SeekFrom(bytes, entry_count, handle, garbage, i + 1)

\* a scan that does not stop at the first record carrying the name and so
\* answers with the last one
SeekHeaderLast(bytes, entry_count, handle, garbage) ==
    LET m == {i \in 0..(entry_count - 1) :
                StrEqual(handle, SubSeq(HeaderBuffers(bytes, i, garbage),
                                        1, NameFieldSize))}
    IN  IF m = {} THEN [found |-> FALSE, index |-> -1, header |-> NoHeader]
        ELSE LET last == CHOOSE i \in m : \A j \in m : j <= i
             IN  [found |-> TRUE, index |-> last,
                  header |-> HeaderAt(bytes, last, garbage)]

\* _yep_seek_header over the bytes yep_file reads, with the cached count
_yep_seek_header(bytes, entry_count, handle, garbage) ==
    LET r == SeekFrom(bytes, entry_count, handle, garbage, 0)
    IN  IF r.found
        THEN [found |-> TRUE, index |-> r.index,
              header |-> HeaderAt(bytes, r.index, garbage)]
        ELSE [found |-> FALSE, index |-> -1, header |-> NoHeader]

\* the part of yep_extract_data after a header was found
ExtractPayload(bytes, header, garbage) ==
    LET data == ReadAt(bytes, header.offset, header.size,
                       Rep(garbage, header.size))
    IN  IF header.compression_type = YEP_COMPRESSION_ZLIB
        THEN LET d == decompress_data(data, header.uncompressed_size)
             IN  IF d.rc # 0
                 THEN [cause |-> "decompress", info |-> NoData]
                 ELSE [cause |-> "ok",
                       info  |-> [data |-> d.output,
                                  size |-> header.uncompressed_size]]
        ELSE [cause |-> "ok", info |-> [data |-> data, size |-> header.size]]

(***************************************************************************)
(* Initial state: yep_initialize() has run, the globals are zero, the disk *)
(* holds the two archives made before the process started.                 *)
(***************************************************************************)
Arch2Image ==
    PackImage(_yep_walk_directory_v2(EmptyPackList, Dir2, Dir2), ZlibOk).file

NoCall ==
    [op |-> "none", file |-> NULL, handle |-> NULL, cause |-> "ok",
     ok |-> FALSE, index |-> -1, header |-> NoHeader, info |-> NoData,
     wrote |-> FALSE, argc |-> 0, code |-> -1]

NoPack ==
    [dir |-> NULL, out |-> NULL, nodes |-> << >>, pre |-> 0,
     complete |-> FALSE, zfailed |-> FALSE, stopped |-> -1]

Init ==
    /\ disk = (Arch1 :> NoFile) @@ (Arch2 :> Arch2Image)
              @@ (ArchOld :> [Arch2Image EXCEPT
                                 ![1] = YEP_CURRENT_FORMAT_VERSION + 1])
    /\ modify_time = (Arch1 :> 0) @@ (Arch2 :> 1) @@ (ArchOld :> 1)
    /\ yep_file_path = NULL
    /\ path_freed = FALSE
    /\ yep_file = NULL
    /\ leaked = 0
    /\ file_entry_count = 0
    /\ file_version_number = 0
    /\ yep_pack_list = EmptyPackList
    /\ proc = "running"
    /\ written = NoPack
    /\ ret = NoCall

(***************************************************************************)
(* Reader operations.                                                      *)
(***************************************************************************)
\* the reader globals after _yep_open_file took outcome o
ReaderAfter(o) ==
    /\ yep_file_path' = o.path
    /\ path_freed' = o.freed
    /\ yep_file' = o.file
    /\ leaked' = o.leaked
    /\ file_entry_count' = o.count
    /\ file_version_number' = o.version

\* what a lookup through the reader answers after outcome o of the open:
\* fseek on a NULL yep_file ends the process
Lookup(o, handle, garbage) ==
    IF o.crashed \/ (o.ok /\ o.file = NULL)
    THEN [cause |-> "crash", found |-> FALSE, index |-> -1,
          header |-> NoHeader]
    ELSE IF ~o.ok
    THEN [cause |-> o.cause, found |-> FALSE, index |-> -1,
          header |-> NoHeader]
    ELSE LET h == _yep_seek_header(disk[o.file], o.count, handle, garbage)
         IN  [cause |-> IF h.found THEN "ok" ELSE "notfound",
              found |-> h.found, index |-> h.index, header |-> h.header]

\* the values uninitialized buffers may hold where a lookup after outcome o
\* reads them: only a table that runs past the end of the file leaves any
\* part of them unwritten
GarbageFor(o) ==
    IF o.ok /\ ~o.crashed /\ o.file # NULL
       /\ 3 + o.count * YEP_HEADER_SIZE_BYTES > Len(disk[o.file])
    THEN GarbageBytes ELSE {0}

yep_extract_data(file, handle) ==
    /\ proc = "running"
    /\ \E o \in _yep_open_file(file) : \E garbage \in GarbageFor(o) :
          LET l == Lookup(o, handle, garbage)
              x == IF l.found
                   THEN ExtractPayload(disk[o.file], l.header, garbage)
                   ELSE [cause |-> l.cause, info |-> NoData]
          IN  /\ o.leaked <= MaxLeaked
              /\ ReaderAfter(o)
              /\ proc' = IF l.cause = "crash" THEN "crashed" ELSE proc
              /\ ret' = [NoCall EXCEPT
                            !.op = "extract", !.file = file,
                            !.handle = handle, !.cause = x.cause,
                            !.ok = l.found, !.index = l.index,
                            !.header = l.header, !.info = x.info]
    /\ UNCHANGED << disk, modify_time, yep_pack_list, written >>

yep_item_exists(file, handle) ==
    /\ proc = "running"
    /\ \E o \in _yep_open_file(file) : \E garbage \in GarbageFor(o) :
          LET l == Lookup(o, handle, garbage)
          IN  /\ o.leaked <= MaxLeaked
              /\ ReaderAfter(o)
              /\ proc' = IF l.cause = "crash" THEN "crashed" ELSE proc
              /\ ret' = [NoCall EXCEPT
                            !.op = "exists", !.file = file,
                            !.handle = handle, !.cause = l.cause,
                            !.ok = l.found, !.index = l.index,
                            !.header = l.header]
    /\ UNCHANGED << disk, modify_time, yep_pack_list, written >>

\* what _yep_close_file may do: freeing a path already freed is undefined
\* and may abort the process
CloseOutcomes ==
    IF yep_file = NULL
    THEN {[crashed |-> FALSE, path |-> yep_file_path, freed |-> path_freed,
           file |-> yep_file, count |-> file_entry_count,
           version |-> file_version_number]}
    ELSE LET closed == [crashed |-> FALSE, path |-> yep_file_path,
                        freed |-> (yep_file_path # NULL), file |-> NULL,
                        count |-> 0, version |-> 0]
         IN  IF yep_file_path # NULL /\ path_freed
             THEN {closed, [closed EXCEPT !.crashed = TRUE]}
             ELSE {closed}

CloseAfter(c) ==
    /\ yep_file_path' = c.path
    /\ path_freed' = c.freed
    /\ yep_file' = c.file
    /\ file_entry_count' = c.count
    /\ file_version_number' = c.version
    /\ UNCHANGED leaked

_yep_close_file ==
    /\ proc = "running"
    /\ \E c \in CloseOutcomes :
          /\ CloseAfter(c)
          /\ proc' = IF c.crashed THEN "crashed" ELSE proc
          /\ ret' = [NoCall EXCEPT !.op = "close",
                                   !.cause = IF c.crashed THEN "crash" ELSE "ok"]
    /\ UNCHANGED << disk, modify_time, yep_pack_list, written >>

\* yep_shutdown: close the reader and free the nodes of the pack list.  The
\* subsystem is not used again after it.
yep_shutdown ==
    /\ proc = "running"
    /\ \E c \in CloseOutcomes :
          /\ CloseAfter(c)
          /\ proc' = IF c.crashed THEN "crashed" ELSE "shutdown"
          /\ ret' = [NoCall EXCEPT !.op = "shutdown",
                                   !.cause = IF c.crashed THEN "crash" ELSE "ok"]
    /\ UNCHANGED << disk, modify_time, yep_pack_list, written >>

(***************************************************************************)
(* Timestamp tracking.                                                     *)
(***************************************************************************)
\* what SDL_GetPathInfo reports for a path on the current disk
PathInfo(path) ==
    IF path \in DOMAIN Listing
    THEN [found |-> TRUE, type |-> "directory",
          modify_time |-> DirModifyTime[path]]
    ELSE IF path \in DOMAIN Files
    THEN [found |-> TRUE, type |-> "file", modify_time |-> 0]
    ELSE IF path \in ArchivePaths /\ disk[path] # NoFile
    THEN [found |-> TRUE, type |-> "file", modify_time |-> modify_time[path]]
    ELSE [found |-> FALSE, type |-> "none", modify_time |-> 0]

\* a comparison that also calls a directory of the archive's own age stale
DirNotOlder(target_directory, yep_path) ==
    LET dir_info == PathInfo(target_directory)
        yep_info == PathInfo(yep_path)
    IN  IF ~dir_info.found THEN FALSE
        ELSE IF dir_info.type # "directory" THEN FALSE
        ELSE IF ~yep_info.found THEN FALSE
        ELSE IF yep_info.type # "file" THEN FALSE
        ELSE dir_info.modify_time >= yep_info.modify_time

\* is_dir_outofdate(target_directory, yep_file_path); the second parameter
\* shadows the reader's global in the source and is named yep_path here
is_dir_outofdate(target_directory, yep_path) ==
    LET dir_info == PathInfo(target_directory)
        yep_info == PathInfo(yep_path)
    IN  IF ~dir_info.found THEN FALSE
        ELSE IF dir_info.type # "directory" THEN FALSE
        ELSE IF ~yep_info.found THEN FALSE
        ELSE IF yep_info.type # "file" THEN FALSE
        ELSE dir_info.modify_time > yep_info.modify_time

\* a call of is_dir_outofdate by the host application
CheckOutOfDate(target_directory, yep_path) ==
    /\ proc = "running"
    /\ ret' = [NoCall EXCEPT !.op = "outofdate", !.file = yep_path,
                             !.handle = target_directory,
                             !.ok = is_dir_outofdate(target_directory,
                                                     yep_path)]
    /\ UNCHANGED << disk, modify_time, yep_pack_list, written, proc >>
    /\ UNCHANGED reader

(***************************************************************************)
(* Packing.                                                                *)
(***************************************************************************)
\* fopen(output_name, "wb") succeeds
CanOpenOutput(output_name) == output_name \in ArchivePaths

\* what _yep_pack_directory(directory_path, output_name) does from the pack
\* list pl0 when zlib behaves as z: walk, open the output, write header,
\* blank records and payloads, release the pack list
\* the outcome of a pack that walked to the list pl and, if it could open its
\* output, wrote img
PackResult(pl, output_name, img) ==
    IF ~CanOpenOutput(output_name)
    THEN [opened |-> FALSE, ok |-> FALSE, cause |-> "open", list |-> pl,
          nodes |-> pl.head, file |-> << >>, exited |-> FALSE,
          crashed |-> FALSE, zfailed |-> FALSE, stopped |-> -1]
    ELSE [opened |-> TRUE, ok |-> ~img.exited /\ ~img.crashed,
          cause |-> IF img.exited THEN "exit"
                    ELSE IF img.crashed THEN "crash" ELSE "ok",
          list |-> IF img.exited \/ img.crashed THEN pl ELSE EmptyPackList,
          nodes |-> pl.head, file |-> img.file,
          exited |-> img.exited, crashed |-> img.crashed,
          zfailed |-> img.zfailed, stopped |-> img.stopped]

PackOutcome(pl0, directory_path, output_name, z) ==
    CHOOSE o \in
        UNION {{PackResult(pl, output_name, img) :
                  img \in IF CanOpenOutput(output_name)
                          THEN {PackImage(pl, z)} ELSE {ZlibOk}} :
               pl \in {_yep_walk_directory_v2(pl0, directory_path,
                                              directory_path)}} : TRUE

\* the disk, the pack list and the record of the last pack after outcome o
PackAfter(o, pl0, directory_path, output_name) ==
    /\ yep_pack_list' = o.list
    /\ IF o.opened
       THEN /\ disk' = [disk EXCEPT ![output_name] = o.file]
            /\ modify_time' = [modify_time EXCEPT ![output_name] = PackTime]
            /\ written' = [dir |-> directory_path, out |-> output_name,
                           nodes |-> o.nodes, pre |-> Len(pl0.head),
                           complete |-> o.ok, zfailed |-> o.zfailed,
                           stopped |-> o.stopped]
       ELSE UNCHANGED << disk, modify_time, written >>

\* _yep_pack_directory, called through the entry point caller
_yep_pack_directory(directory_path, output_name, caller) ==
    /\ proc = "running"
    /\ \E z \in ZlibEnv :
       \E o \in {PackOutcome(yep_pack_list, directory_path, output_name, z)} :
          /\ ~o.opened => Len(o.list.head) <= MaxPackList
          /\ PackAfter(o, yep_pack_list, directory_path, output_name)
          /\ proc' = IF o.exited THEN "exited"
                     ELSE IF o.crashed THEN "crashed" ELSE proc
          /\ ret' = [NoCall EXCEPT !.op = caller, !.file = output_name,
                                   !.handle = directory_path,
                                   !.ok = o.ok, !.cause = o.cause,
                                   !.wrote = o.opened]
    /\ UNCHANGED reader

yep_force_pack_directory(directory_path, output_name) ==
    _yep_pack_directory(directory_path, output_name, "force")

\* yep_pack_directory: pack only when is_dir_outofdate says so, and report
\* success otherwise
yep_pack_directory(directory_path, output_name) ==
    IF is_dir_outofdate(directory_path, output_name)
    THEN _yep_pack_directory(directory_path, output_name, "gated")
    ELSE /\ proc = "running"
         /\ ret' = [NoCall EXCEPT !.op = "gated", !.file = output_name,
                                  !.handle = directory_path, !.ok = TRUE,
                                  !.cause = "uptodate"]
         /\ UNCHANGED << disk, modify_time, yep_pack_list, written, proc >>
         /\ UNCHANGED reader

\* the pack command: main(argc, argv) of a process that has just started.
\* An exit status of -1 stands for a process ended by a signal.
MainDirs == SourceDirs \cup {DirMissing, Join(Dir2, NameA)}

main(argc, input_dir, output_file) ==
    /\ proc = "running" /\ ret = NoCall
    /\ yep_pack_list = EmptyPackList
    /\ LET call == [NoCall EXCEPT !.op = "main", !.argc = argc,
                                  !.file = output_file, !.handle = input_dir]
       IN  IF argc # 3
           THEN /\ ret' = [call EXCEPT !.cause = "usage", !.code = 1]
                /\ proc' = "exited"
                /\ UNCHANGED << disk, modify_time, yep_pack_list, written >>
           ELSE \E z \in ZlibEnv :
                \E o \in {PackOutcome(EmptyPackList, input_dir,
                                      output_file, z)} :
                   /\ PackAfter(o, EmptyPackList, input_dir, output_file)
                   /\ proc' = IF o.crashed THEN "crashed" ELSE "exited"
                   /\ ret' = [call EXCEPT
                                 !.ok = o.ok, !.cause = o.cause,
                                 !.wrote = o.opened,
                                 !.code = IF o.crashed THEN -1
                                          ELSE IF o.ok THEN 0 ELSE 1]
    /\ UNCHANGED reader

Next ==
    \/ \E file \in ReadPaths, handle \in QueryNames :
          yep_extract_data(file, handle)
    \/ \E file \in ReadPaths, handle \in QueryNames :
          yep_item_exists(file, handle)
    \/ _yep_close_file
    \/ yep_shutdown
    \/ \E dir \in SourceDirs, out \in OutPaths :
          yep_force_pack_directory(dir, out)
    \/ \E argc \in {2, 3}, dir \in MainDirs, out \in OutPaths :
          main(argc, dir, out)

Spec == Init /\ [][Next]_vars

(***************************************************************************)
(* The reader against a damaged archive.  The archive at Arch2 was not     *)
(* written by this engine's packer: its four entries are all marked        *)
(* zlib-deflate; "a" is intact, the uncompressed-size field of "k" is one  *)
(* less and that of "s" one more than the stream decodes to, and the       *)
(* stream of "u" is corrupt.                                               *)
(***************************************************************************)
ForgedContent == << 66, 66, 66, 66, 66, 66, 67, 67 >>

ForgedStream == Deflate(ForgedContent)

CorruptStream == [ForgedStream EXCEPT ![1] = 0]

EntryRecord(name, offset, size, compression_type, uncompressed_size) ==
    NameField(name) \o U32LE(offset) \o U32LE(size)
    \o << compression_type >> \o U32LE(uncompressed_size)
    \o << YEP_DATATYPE_MISC >>

ForgedImage ==
    LET good == DataStart(4)
        bad  == good + Len(ForgedStream)
    IN  << YEP_CURRENT_FORMAT_VERSION >> \o U16LE(4)
        \o EntryRecord(NameA, good, Len(ForgedStream), YEP_COMPRESSION_ZLIB,
                       Len(ForgedContent))
        \o EntryRecord(NameK, good, Len(ForgedStream), YEP_COMPRESSION_ZLIB,
                       Len(ForgedContent) - 1)
        \o EntryRecord(NameS, good, Len(ForgedStream), YEP_COMPRESSION_ZLIB,
                       Len(ForgedContent) + 1)
        \o EntryRecord(NameU, bad, Len(CorruptStream), YEP_COMPRESSION_ZLIB,
                       Len(ForgedContent))
        \o ForgedStream \o CorruptStream

ForgedNames == {NameA, NameK, NameS, NameU, NameZZ}

InitForged ==
    /\ disk = (Arch1 :> NoFile) @@ (Arch2 :> ForgedImage)
              @@ (ArchOld :> [ForgedImage EXCEPT
                                 ![1] = YEP_CURRENT_FORMAT_VERSION + 1])
    /\ modify_time = (Arch1 :> 0) @@ (Arch2 :> 1) @@ (ArchOld :> 1)
    /\ yep_file_path = NULL
    /\ path_freed = FALSE
    /\ yep_file = NULL
    /\ leaked = 0
    /\ file_entry_count = 0
    /\ file_version_number = 0
    /\ yep_pack_list = EmptyPackList
    /\ proc = "running"
    /\ written = NoPack
    /\ ret = NoCall

NextForged ==
    \/ \E file \in ReadPaths, handle \in ForgedNames :
          yep_extract_data(file, handle)
    \/ \E file \in ReadPaths, handle \in ForgedNames :
          yep_item_exists(file, handle)
    \/ _yep_close_file
    \/ yep_shutdown

SpecForged == InitForged /\ [][NextForged]_vars

(***************************************************************************)
(* The staleness check and the packing it gates, over the file systems     *)
(* they can meet: the output Arch1 may exist or not before the run, with   *)
(* any modification time up to MaxTime.                                    *)
(***************************************************************************)
StaleDirs == SourceDirs \cup {DirMissing, Join(Dir2, NameA)}
StaleArchives == ArchivePaths \cup {ArchMissing, Dir0}

InitStale ==
    /\ \E first \in {NoFile, Arch2Image} :
          disk = (Arch1 :> first) @@ (Arch2 :> Arch2Image)
                 @@ (ArchOld :> [Arch2Image EXCEPT
                                    ![1] = YEP_CURRENT_FORMAT_VERSION + 1])
    /\ \E t \in 0..MaxTime :
          modify_time = (Arch1 :> t) @@ (Arch2 :> 1) @@ (ArchOld :> 1)
    /\ yep_file_path = NULL
    /\ path_freed = FALSE
    /\ yep_file = NULL
    /\ leaked = 0
    /\ file_entry_count = 0
    /\ file_version_number = 0
    /\ yep_pack_list = EmptyPackList
    /\ proc = "running"
    /\ written = NoPack
    /\ ret = NoCall

\* the outputs the gated packs of the model are asked for
GatedOutPaths == {Arch1, Arch2}

NextStale ==
    \/ \E target_directory \in StaleDirs, yep_path \in StaleArchives :
          CheckOutOfDate(target_directory, yep_path)
    \/ \E dir \in SourceDirs, out \in GatedOutPaths :
          yep_pack_directory(dir, out)

SpecStale == InitStale /\ [][NextStale]_vars

(***************************************************************************)
(* Reading an archive back, and the files a directory holds, as the claims *)
(* below speak of them.                                                    *)
(***************************************************************************)
\* the entry count in the 3-byte header
EntryCountOf(bytes) == FromLE(SubSeq(bytes, 2, 3))

\* the entry table: record i of the file is TableOf(bytes)[i + 1]
TableOf(bytes) == [i \in 1..EntryCountOf(bytes) |-> HeaderAt(bytes, i - 1, 0)]

\* the stored bytes of a record, and the content they stand for
PayloadOf(bytes, rec) == SubSeq(bytes, rec.offset + 1, rec.offset + rec.size)

ContentOf(bytes, rec) ==
    IF rec.compression_type = YEP_COMPRESSION_ZLIB
    THEN Inflate(PayloadOf(bytes, rec)).out
    ELSE PayloadOf(bytes, rec)

\* the records of the table that carry a name
Matches(bytes, handle) ==
    {i \in 1..EntryCountOf(bytes) : CStr(TableOf(bytes)[i].name) = handle}

Lowest(S) == CHOOSE i \in S : \A j \in S : i <= j

\* the regular files below root whose relative name has at most 63 bytes,
\* in the order the recursive enumeration yields them
RECURSIVE YieldList(_, _, _)
YieldList(root, dir, fnames) ==
    IF fnames = << >> THEN << >>
    ELSE LET p    == Join(dir, Head(fnames))
             rel  == SubSeq(p, Len(root) + 2, Len(p))
             here == IF p \in DOMAIN Files
                     THEN IF Len(rel) <= 63
                          THEN << [name |-> rel, path |-> p] >> ELSE << >>
                     ELSE IF p \in DOMAIN Listing
                     THEN YieldList(root, p, Listing[p])
                     ELSE << >>
         IN  here \o YieldList(root, dir, Tail(fnames))

Accepted(root) ==
    IF root \in DOMAIN Listing THEN YieldList(root, root, Listing[root])
    ELSE << >>

IsLookup == ret.op \in {"extract", "exists"}

\* the handles the reader holds open: the current one and those it lost
OpenHandles == leaked + (IF yep_file = NULL THEN 0 ELSE 1)

(***************************************************************************)
(* Claims.                                                                 *)
(***************************************************************************)

\* C1: after a pack of a directory has succeeded, extracting any packed name
\* from the archive it wrote returns exactly the content and the length of the
\* source file of that name.
C1_RoundTrip ==
    (ret.op = "extract" /\ written.complete /\ ret.file = written.out)
    => \A i \in 1..Len(Accepted(written.dir)) :
          Accepted(written.dir)[i].name = ret.handle
          => ret.info = [data |-> Files[Accepted(written.dir)[i].path].data,
                         size |-> Len(Files[Accepted(written.dir)[i].path].data)]

\* C2: every lookup on an archive whose version byte is not
\* YEP_CURRENT_FORMAT_VERSION fails in _yep_open_file with the version error
\* and returns no data / false, on every attempt.
C2_VersionGate ==
    (IsLookup /\ ret.file \in ArchivePaths /\ disk[ret.file] # NoFile
       /\ disk[ret.file][1] # YEP_CURRENT_FORMAT_VERSION)
    => (ret.cause = "version" /\ ~ret.ok /\ ret.info = NoData)

\* C3: after any sequence of opens the reader holds at most one archive
\* file handle open.
C3_SingleHandle == OpenHandles <= 1

\* C4: a lookup of a name that no record of a valid archive carries answers
\* not-found: yep_item_exists false, yep_extract_data NULL with size 0.
C4_AbsentNotFound ==
    (IsLookup /\ ret.file \in ArchivePaths /\ disk[ret.file] # NoFile
       /\ disk[ret.file][1] = YEP_CURRENT_FORMAT_VERSION
       /\ Matches(disk[ret.file], ret.handle) = {})
    => (ret.cause = "notfound" /\ ~ret.ok /\ ret.info = NoData)

\* C5: the result yep_extract_data returns for a name that is not in the
\* archive differs from the result it returns when the archive cannot be
\* opened, has an unsupported version or fails decompression (stated on two
\* calls in a row).
C5_Distinguishable ==
    [][(ret.op = "extract" /\ ret.cause = "notfound"
          /\ ret'.op = "extract"
          /\ ret'.cause \in {"open", "version", "decompress"})
       => ret'.info # ret.info]_vars

\* C6: a lookup that finds its name returns the fields of the record with
\* the lowest table index among the records carrying that name, and
\* yep_extract_data returns that record's content.
C6_FirstMatchWins ==
    (IsLookup /\ ret.ok)
    => /\ yep_file # NULL
       /\ Matches(disk[yep_file], ret.handle) # {}
       /\ ret.index + 1 = Lowest(Matches(disk[yep_file], ret.handle))
       /\ ret.header = TableOf(disk[yep_file])[ret.index + 1]
       /\ (ret.op = "extract" /\ ret.cause = "ok")
          => /\ ret.info.data = ContentOf(disk[yep_file], ret.header)
             /\ ret.info.size = Len(ret.info.data)

C6_Witness ==
    /\ ret.op = "extract" /\ ret.ok /\ ret.cause = "ok"
    /\ Cardinality(Matches(disk[yep_file], ret.handle)) >= 2
    /\ \E i, j \in Matches(disk[yep_file], ret.handle) :
          ContentOf(disk[yep_file], TableOf(disk[yep_file])[i])
          # ContentOf(disk[yep_file], TableOf(disk[yep_file])[j])

\* C7: the header entry count and the entry table of a completed pack hold
\* exactly the regular files of the packed directory whose relative name has
\* at most 63 bytes, each name NUL-terminated inside its 64-byte field.
C7_NameLengthBoundary ==
    written.complete
    => /\ EntryCountOf(disk[written.out]) = Len(Accepted(written.dir))
       /\ {CStr(TableOf(disk[written.out])[i].name) :
              i \in 1..EntryCountOf(disk[written.out])}
          = {Accepted(written.dir)[i].name :
              i \in 1..Len(Accepted(written.dir))}
       /\ \A i \in 1..EntryCountOf(disk[written.out]) :
             \E j \in 1..64 : TableOf(disk[written.out])[i].name[j] = 0

\* C8: in a completed pack a record's compression kind is zlib exactly when
\* its source file has more than 256 bytes; a file of at most 256 bytes is
\* stored verbatim with stored size = uncompressed size = raw size; the
\* uncompressed-size field is always the raw size.
C8_CompressionThreshold ==
    written.complete
    => /\ EntryCountOf(disk[written.out]) = Len(written.nodes)
       /\ \A i \in 1..Len(written.nodes) :
             LET raw == Files[written.nodes[i].fullpath].data
                 rec == TableOf(disk[written.out])[i]
             IN  /\ (rec.compression_type = YEP_COMPRESSION_ZLIB)
                    <=> (Len(raw) > 256)
                 /\ rec.compression_type
                       \in {YEP_COMPRESSION_ZLIB, YEP_COMPRESSION_NONE}
                 /\ rec.uncompressed_size = Len(raw)
                 /\ Len(raw) <= 256
                    => /\ rec.size = Len(raw)
                       /\ PayloadOf(disk[written.out], rec) = raw

C8_Witness ==
    /\ written.complete
    /\ \E i, j \in 1..Len(written.nodes) :
          /\ Len(Files[written.nodes[i].fullpath].data) = 256
          /\ TableOf(disk[written.out])[i].compression_type = YEP_COMPRESSION_NONE
          /\ Len(Files[written.nodes[j].fullpath].data) = 257
          /\ TableOf(disk[written.out])[j].compression_type = YEP_COMPRESSION_ZLIB

\* C9: in a completed pack of N entries record 0's payload starts at
\* 3 + 78 * N and every later payload starts where the one before it ends, so
\* the payloads lie after the table, in table order, without overlap.
C9_PayloadLayout ==
    written.complete
    => LET N == EntryCountOf(disk[written.out])
           t == TableOf(disk[written.out])
       IN  /\ N = Len(written.nodes)
           /\ N >= 1 => t[1].offset = 3 + 78 * N
           /\ \A i \in 2..N : t[i].offset = t[i - 1].offset + t[i - 1].size
           /\ \A i \in 1..N : t[i].offset >= 3 + 78 * N
           /\ \A i, j \in 1..N :
                 i < j => t[i].offset + t[i].size <= t[j].offset

C9_Witness ==
    /\ written.complete
    /\ EntryCountOf(disk[written.out]) >= 2
    /\ \A i \in 1..EntryCountOf(disk[written.out]) :
          TableOf(disk[written.out])[i].size > 0

\* C10 as claimed: the records of a completed pack appear in the order in
\* which the walk yielded the accepted files, the first file yielded being
\* record 0.
C10_TraversalOrder ==
    written.complete
    => /\ EntryCountOf(disk[written.out]) >= Len(Accepted(written.dir))
       /\ \A i \in 1..Len(Accepted(written.dir)) :
             CStr(TableOf(disk[written.out])[i].name)
             = Accepted(written.dir)[i].name

\* C10 as amended: the records of the files a walk accepted appear in the
\* reverse of the order in which the walk yielded them (the last file yielded
\* is record 0), ahead of the nodes that were in the list before the walk,
\* each record carries the length of its file, and the payloads lie in the
\* file in the order of their records.
C10_ReverseTraversalOrder ==
    written.complete
    => LET acc == Accepted(written.dir)
           k   == Len(acc)
           t   == TableOf(disk[written.out])
       IN  /\ EntryCountOf(disk[written.out]) = k + written.pre
           /\ \A i \in 1..k :
                 /\ CStr(t[i].name) = acc[k + 1 - i].name
                 /\ t[i].uncompressed_size
                    = Len(Files[acc[k + 1 - i].path].data)
                 /\ i > 1 => t[i - 1].offset + t[i - 1].size <= t[i].offset

C10_Witness ==
    /\ written.complete
    /\ Len(Accepted(written.dir)) >= 2
    /\ CStr(TableOf(disk[written.out])[1].name)
       = Accepted(written.dir)[Len(Accepted(written.dir))].name

\* C11: a pack during which compress_data returned a non-success status for
\* some entry never returns success.
C11_CompressorFailureSurfaced ==
    (ret.wrote /\ written.zfailed) => (~ret.ok /\ ret.code # 0)

\* C12: for a found entry of compression kind zlib-deflate, yep_extract_data
\* returns the decoded bytes with size = the record's uncompressed-size field
\* when the stream decodes to exactly that many bytes, and data = NULL with
\* size = 0 when the decompressor fails or decodes to any other length; it
\* never returns a buffer of another length.
C12_DecompressionIntegrity ==
    (ret.op = "extract" /\ ret.ok
       /\ ret.header.compression_type = YEP_COMPRESSION_ZLIB)
    => LET r == Inflate(PayloadOf(disk[yep_file], ret.header))
       IN  /\ IF r.ok /\ Len(r.out) = ret.header.uncompressed_size
              THEN ret.info = [data |-> r.out,
                               size |-> ret.header.uncompressed_size]
              ELSE ret.info = NoData
           /\ ret.info # NoData
              => /\ Len(ret.info.data) = ret.header.uncompressed_size
                 /\ ret.info.size = ret.header.uncompressed_size

C12_Witness ==
    /\ ret.op = "extract" /\ ret.ok
    /\ ret.header.compression_type = YEP_COMPRESSION_ZLIB
    /\ Inflate(PayloadOf(disk[yep_file], ret.header)).ok
    /\ Len(Inflate(PayloadOf(disk[yep_file], ret.header)).out)
       < ret.header.uncompressed_size
    /\ ret.info = NoData /\ ret.cause = "decompress"

\* C13: is_dir_outofdate(source_dir, archive) returns true exactly when
\* source_dir is an existing directory, archive an existing regular file and
\* the directory's modification time is strictly greater than the
\* archive's; equal times, a missing path or a path of the wrong type give
\* false.
C13_StalenessCheck ==
    ret.op = "outofdate"
    => (ret.ok <=>
          /\ ret.handle \in DOMAIN Listing
          /\ ret.file \in DOMAIN Files
             \/ (ret.file \in ArchivePaths /\ disk[ret.file] # NoFile)
          /\ DirModifyTime[ret.handle]
             > (IF ret.file \in ArchivePaths THEN modify_time[ret.file]
                ELSE 0))

C13_Witness ==
    /\ ret.op = "outofdate" /\ ret.ok
    /\ ret.handle = Dir2 /\ ret.file = Arch2
    /\ modify_time[Arch2] = DirModifyTime[Dir2] - 1

\* C14: the pack command exits with code 1 when the argument count is wrong,
\* the input path is missing or no directory, the output cannot be opened
\* or a source file cannot be opened, and with code 0 only when none of
\* these happened.
C14_ExitStatus ==
    ret.op = "main"
    => LET failed ==
              \/ ret.argc # 3
              \/ ret.handle \notin DOMAIN Listing
              \/ ret.file \notin ArchivePaths
              \/ \E i \in 1..Len(Accepted(ret.handle)) :
                    ~Files[Accepted(ret.handle)[i].path].readable
       IN  /\ failed => ret.code = 1
           /\ ret.code = 0 => ~failed

\* the nodes of the last pack whose source file cannot be opened
Unreadable ==
    {i \in 1..Len(written.nodes) :
        ~Files[written.nodes[i].fullpath].readable}

\* C15: when the payload loop of a pack comes to an item whose source file
\* cannot be opened, the process ends there (with status 1 for the pack
\* command): the pack does not return, and the records from that item on
\* stay as blank as they were written, with no payload behind them.
C15_SourceFailureFatal ==
    (ret.wrote /\ Unreadable # {} /\ proc # "crashed")
    => LET f == Lowest(Unreadable)
           t == TableOf(disk[written.out])
       IN  /\ proc = "exited" /\ ~ret.ok /\ ~written.complete
           /\ ret.op = "main" => ret.code = 1
           /\ written.stopped = f - 1
           /\ \A i \in f..Len(written.nodes) :
                 /\ t[i].offset = 0 /\ t[i].size = 0
                 /\ t[i].uncompressed_size = 0
           /\ Len(disk[written.out])
              = IF f = 1 THEN 3 + 78 * Len(written.nodes)
                ELSE t[f - 1].offset + t[f - 1].size

C15_Witness ==
    /\ ret.wrote /\ proc = "exited"
    /\ Unreadable # {}
    /\ Lowest(Unreadable) > 1
    /\ Lowest(Unreadable) < Len(written.nodes)

\* C16: after every return of _yep_pack_directory the global pack list is
\* empty.
C16_PackListPerInvocation ==
    (ret.op \in {"force", "gated"} /\ ret.cause # "uptodate"
       /\ proc = "running")
    => yep_pack_list = EmptyPackList

\* C17: whenever a path is cached in yep_file_path, yep_file is an open
\* handle on that path.
C17_CacheConsistency ==
    (yep_file_path # NULL /\ ~path_freed) => yep_file = yep_file_path

\* C18: after _yep_close_file, also through yep_shutdown, the cached path is
\* cleared together with the handle, the entry count and the version.
C18_CloseResets ==
    (ret.op \in {"close", "shutdown"} /\ ret.cause = "ok")
    => /\ yep_file_path = NULL /\ ~path_freed
       /\ yep_file = NULL
       /\ file_entry_count = 0 /\ file_version_number = 0

\* C19: the cached entry count equals the entry count in the header of the
\* archive stored at the path the reader has open.
C19_CacheFreshness ==
    (yep_file # NULL /\ disk[yep_file] # NoFile)
    => file_entry_count = EntryCountOf(disk[yep_file])

\* C20: whenever yep_pack_directory returns true for an existing source
\* directory, an archive exists at the output path.
C20_GatedPackProducesArchive ==
    (ret.op = "gated" /\ ret.ok /\ ret.handle \in DOMAIN Listing)
    => (ret.file \in ArchivePaths /\ disk[ret.file] # NoFile)

====
